---------------------------- MODULE Spec2Model ----------------------------
(***************************************************************************)
(* A model of the Telegram clip bot of src/bot.py: the timestamp parser    *)
(* hms_to_sec, the command parser _parse_or_reply with the grammar         *)
(* CLIP_RE, the stream selection and range validation of clip_youtube,     *)
(* and the two variants of the request handler h_clip (the asyncio one of  *)
(* python-telegram-bot >= 20 and the blocking one of earlier versions).    *)
(*                                                                         *)
(* Text is modelled as a sequence of one-character strings, so that        *)
(* splitting, matching and integer conversion are computed character by    *)
(* character as the Python code computes them.                             *)
(***************************************************************************)
EXTENDS Integers, Sequences, FiniteSets, TLC

VARIABLES
    \* ---- the pure functions, applied to enumerated inputs ----
    argParts,     \* the colon-free components the timestamp argument is built from
    argTs,        \* hms_to_sec's argument ts
    retSec,       \* hms_to_sec's result: [st, exc, val]
    argInfo,      \* the provider metadata given to the stream selection
    retStream,    \* the stream selection's result: [st, exc, url]
    argToks,      \* the argument tokens the command text is built from
    argCmd,       \* _parse_or_reply's argument message_text
    retCmd,       \* _parse_or_reply's result: [st, reply, ok, url, t1, t2]
    \* ---- the request handlers ----
    PTB_MODE,     \* "async" | "sync" (lines 10-26)
    set_exception,\* what asyncio's Future.set_exception does with StopIteration
    pc,           \* each request's position in h_clip
    text,         \* update.message.text of each request
    info,         \* what extract_info returned for the request
    stream,       \* stream_url
    exc,          \* the exception the request's try block ended with
    thread,       \* where clip_youtube of the request runs
    queue,        \* the default executor's FIFO work queue
    workspace,    \* the request's TemporaryDirectory: "none" | "exists" | "destroyed"
    note,         \* the progress message: "none" | "progress" | "failed" | "deleted"
    sent,         \* reply_text messages of the request that reached the chat
    unawaited,    \* reply_text coroutines created and dropped unawaited
    logged,       \* logging.exception calls of the request
    calls,        \* per request: extract_info, ffmpeg and reply_video invocations
    returncode    \* ffmpeg's exit status for the request, -1 while it has none

fnVars == <<argParts, argTs, retSec, argInfo, retStream, argToks, argCmd, retCmd>>
botVars == <<PTB_MODE, set_exception, pc, text, info, stream, exc, thread, queue,
             workspace, note, sent, unawaited, logged, calls, returncode>>
vars == <<fnVars, botVars>>

-----------------------------------------------------------------------------
(* Characters and Python's str helpers                                      *)

Digits == {"0", "1", "2", "3", "4", "5", "6", "7", "8", "9"}

DigitVal(c) ==
    CASE c = "0" -> 0 [] c = "1" -> 1 [] c = "2" -> 2 [] c = "3" -> 3
      [] c = "4" -> 4 [] c = "5" -> 5 [] c = "6" -> 6 [] c = "7" -> 7
      [] c = "8" -> 8 [] c = "9" -> 9

IsSpace(c) == c \in {" "}

Sub(s, i, j) == IF i > j THEN <<>> ELSE SubSeq(s, i, j)

AllIn(s, S) == \A i \in 1..Len(s) : s[i] \in S

\* str.lstrip() / str.strip()
RECURSIVE LStrip(_)
LStrip(s) == IF s # <<>> /\ IsSpace(Head(s)) THEN LStrip(Tail(s)) ELSE s

RECURSIVE RStrip(_)
RStrip(s) ==
    IF s # <<>> /\ IsSpace(s[Len(s)]) THEN RStrip(Sub(s, 1, Len(s) - 1)) ELSE s

\* The length of the longest prefix of s made of characters satisfying ~IsSpace.
RECURSIVE WordLen(_)
WordLen(s) == IF s = <<>> \/ IsSpace(Head(s)) THEN 0 ELSE 1 + WordLen(Tail(s))

\* ts.split(":"): every separator cuts, empty pieces are kept, "" gives [""].
RECURSIVE SplitOn(_, _)
SplitOn(s, sep) ==
    IF \A i \in 1..Len(s) : s[i] # sep
    THEN <<s>>
    ELSE LET k == CHOOSE i \in 1..Len(s) :
                      s[i] = sep /\ \A j \in 1..(i - 1) : s[j] # sep
         IN  <<Sub(s, 1, k - 1)>> \o SplitOn(Sub(s, k + 1, Len(s)), sep)

\* sep.join(parts)
RECURSIVE Join(_, _)
Join(parts, sep) ==
    IF parts = <<>> THEN <<>>
    ELSE IF Len(parts) = 1 THEN parts[1]
    ELSE parts[1] \o <<sep>> \o Join(Tail(parts), sep)

\* The value of a string of decimal digits (underscores skipped).
RECURSIVE DecVal(_, _)
DecVal(s, acc) ==
    IF s = <<>> THEN acc
    ELSE IF Head(s) = "_" THEN DecVal(Tail(s), acc)
    ELSE DecVal(Tail(s), acc * 10 + DigitVal(Head(s)))

\* Python's int(str): surrounding whitespace is stripped, one leading sign is
\* allowed, then decimal digits, single underscores allowed between digits.
\* Anything else raises ValueError.
PyInt(p) ==
    LET t == RStrip(LStrip(p))
        signed == t # <<>> /\ Head(t) \in {"+", "-"}
        body == IF signed THEN Tail(t) ELSE t
        wellFormed ==
            /\ body # <<>>
            /\ AllIn(body, Digits \cup {"_"})
            /\ body[1] # "_" /\ body[Len(body)] # "_"
            /\ \A i \in 1..(Len(body) - 1) : ~(body[i] = "_" /\ body[i + 1] = "_")
    IN  IF ~wellFormed THEN [exc |-> "ValueError", val |-> 0]
        ELSE [exc |-> "none",
              val |-> IF signed /\ Head(t) = "-" THEN 0 - DecVal(body, 0)
                      ELSE DecVal(body, 0)]

-----------------------------------------------------------------------------
(* hms_to_sec (lines 36-41)                                                 *)

\* A variant that pads on the right: parts.append(0).
RECURSIVE PadPartsRight(_)
PadPartsRight(parts) ==
    IF Len(parts) < 3 THEN PadPartsRight(parts \o <<0>>) ELSE parts

\* while len(parts) < 3: parts.insert(0, 0)
RECURSIVE PadParts(_)
PadParts(parts) == IF Len(parts) < 3 THEN PadParts(<<0>> \o parts) ELSE parts

\* A variant that keeps the last three components: h, m, s = parts[-3:].
hms_to_sec_truncating(ts) ==
    LET strs == SplitOn(ts, ":")
        ints == [i \in 1..Len(strs) |-> PyInt(strs[i])]
    IN  IF \E i \in 1..Len(ints) : ints[i].exc # "none"
        THEN [exc |-> "ValueError", val |-> 0]
        ELSE LET parts == PadParts([i \in 1..Len(ints) |-> ints[i].val])
                 n == Len(parts)
             IN  [exc |-> "none",
                  val |-> parts[n - 2] * 3600 + parts[n - 1] * 60 + parts[n]]

hms_to_sec(ts) ==
    LET strs == SplitOn(ts, ":")
        ints == [i \in 1..Len(strs) |-> PyInt(strs[i])]
    IN  IF \E i \in 1..Len(ints) : ints[i].exc # "none"
        THEN [exc |-> "ValueError", val |-> 0]          \* int(p) raised
        ELSE LET parts == PadParts([i \in 1..Len(ints) |-> ints[i].val])
             IN  IF Len(parts) # 3
                 THEN [exc |-> "ValueError", val |-> 0] \* h, m, s = parts
                 ELSE [exc |-> "none",
                       val |-> parts[1] * 3600 + parts[2] * 60 + parts[3]]

-----------------------------------------------------------------------------
(* The stream selection of clip_youtube (lines 50-54)                       *)

\* f.get("ext") == "mp4" and f.get("acodec") != "none"; a candidate without
\* an acodec key has f.get("acodec") = None, which differs from "none".
Qualifies(f) == f.ext = "mp4" /\ f.acodec # "none"

\* A variant that keeps the last qualifying candidate instead of the first.
RECURSIVE LastQualifying(_)
LastQualifying(formats) ==
    IF formats = <<>> THEN [exc |-> "StopIteration", url |-> ""]
    ELSE IF Qualifies(formats[Len(formats)])
    THEN [exc |-> "none", url |-> formats[Len(formats)].url]
    ELSE LastQualifying(Sub(formats, 1, Len(formats) - 1))

\* next(f["url"] for f in formats if ...): the first qualifying candidate in
\* the given order, StopIteration when the generator is exhausted.
RECURSIVE NextQualifying(_)
NextQualifying(formats) ==
    IF formats = <<>> THEN [exc |-> "StopIteration", url |-> ""]
    ELSE IF Qualifies(Head(formats)) THEN [exc |-> "none", url |-> Head(formats).url]
    ELSE NextQualifying(Tail(formats))

\* info.get("url", next(... for f in info["formats"] ...)): Python evaluates
\* the default argument before the call, so info["formats"] is subscripted
\* (KeyError when the key is absent) and next() is run (StopIteration when
\* nothing qualifies) whether or not info holds a "url".
select_stream(i) ==
    IF ~i.hasFormats THEN [exc |-> "KeyError", url |-> ""]
    ELSE LET default == NextQualifying(i.formats)
         IN  IF default.exc # "none" THEN default
             ELSE IF i.hasUrl THEN [exc |-> "none", url |-> i.url]
             ELSE default

-----------------------------------------------------------------------------
(* CLIP_RE (lines 29-33) and _parse_or_reply (lines 69-78)                  *)

\* str.split(maxsplit=n): runs of whitespace separate, leading whitespace is
\* dropped, and after n cuts the rest (left-stripped, not right-stripped) is
\* the last piece; an empty rest gives no piece.
RECURSIVE PySplit(_, _)
PySplit(s, maxsplit) ==
    LET t == LStrip(s)
        k == WordLen(t)
    IN  IF t = <<>> THEN <<>>
        ELSE IF maxsplit = 0 THEN <<t>>
        ELSE <<Sub(t, 1, k)>> \o PySplit(Sub(t, k + 1, Len(t)), maxsplit - 1)

StartsWith(w, pre) == Len(w) >= Len(pre) /\ Sub(w, 1, Len(pre)) = pre

\* https?://\S+ matching the whole of w
IsUrl(w) ==
    /\ \A i \in 1..Len(w) : ~IsSpace(w[i])
    /\ \/ StartsWith(w, <<"h", "t", "t", "p", ":", "/", "/">>) /\ Len(w) >= 8
       \/ StartsWith(w, <<"h", "t", "t", "p", "s", ":", "/", "/">>) /\ Len(w) >= 9

\* A variant of the pattern that lets a component carry a sign: -?\d+ ...
IsTimeSigned(w) ==
    LET ps == SplitOn(w, ":")
        unsigned(p) == IF p # <<>> /\ Head(p) = "-" THEN Tail(p) ELSE p
    IN  /\ Len(ps) \in 1..3
        /\ unsigned(ps[1]) # <<>> /\ AllIn(unsigned(ps[1]), Digits)
        /\ \A i \in 2..Len(ps) :
               Len(unsigned(ps[i])) \in 1..2 /\ AllIn(unsigned(ps[i]), Digits)

\* \d+(?::\d{1,2}){0,2} matching the whole of w
IsTime(w) ==
    LET ps == SplitOn(w, ":")
    IN  /\ Len(ps) \in 1..3
        /\ ps[1] # <<>> /\ AllIn(ps[1], Digits)
        /\ \A i \in 2..Len(ps) : Len(ps[i]) \in 1..2 /\ AllIn(ps[i], Digits)

AllSpace(s, i, j) == \A k \in i..j : IsSpace(s[k])

\* The ways CLIP_RE matches s: <<a, b, c, d, e, f>> with s[1..a] the leading
\* whitespace, s[a+1..b] the url, s[b+1..c] whitespace, s[c+1..d] t1,
\* s[d+1..e] whitespace, s[e+1..f] t2 and s[f+1..] the trailing whitespace.
CLIP_RE(s) ==
    LET n == Len(s)
    IN  UNION { UNION { UNION { UNION { UNION {
            { <<a, b, c, d, e, f>> :
                f \in { x \in (e + 1)..n :
                          IsTime(Sub(s, e + 1, x)) /\ AllSpace(s, x + 1, n) } }
            : e \in { x \in (d + 1)..n : AllSpace(s, d + 1, x) } }
            : d \in { x \in (c + 1)..n : IsTime(Sub(s, c + 1, x)) } }
            : c \in { x \in (b + 1)..n : AllSpace(s, b + 1, x) } }
            : b \in { x \in (a + 1)..n : IsUrl(Sub(s, a + 1, x)) } }
            : a \in { x \in 0..n : AllSpace(s, 1, x) } }

\* A variant that tries the pattern before it counts the tokens.
_parse_or_reply_pattern_first(message_text) ==
    LET parts == IF PySplit(message_text, 3) = <<>> THEN <<>>
                 ELSE Tail(PySplit(message_text, 3))
        joined == Join(parts, " ")
        ms == CLIP_RE(joined)
    IN  IF ms = {}
        THEN [reply |-> "CouldntParse", ok |-> FALSE,
              url |-> <<>>, t1 |-> <<>>, t2 |-> <<>>]
        ELSE LET m == CHOOSE x \in ms : TRUE
             IN  [reply |-> "none", ok |-> TRUE,
                  url |-> Sub(joined, m[1] + 1, m[2]),
                  t1 |-> Sub(joined, m[3] + 1, m[4]),
                  t2 |-> Sub(joined, m[5] + 1, m[6])]

\* _parse_or_reply's result: which reply it made ("none" when it made none)
\* and, on a match, the three groups.
_parse_or_reply(message_text) ==
    LET parts == Tail(PySplit(message_text, 3))
        joined == Join(parts, " ")
        ms == CLIP_RE(joined)
    IN  IF PySplit(message_text, 3) = <<>> \/ Len(parts) < 3
        THEN [reply |-> "Usage", ok |-> FALSE, url |-> <<>>, t1 |-> <<>>, t2 |-> <<>>]
        ELSE IF ms = {}
        THEN [reply |-> "CouldntParse", ok |-> FALSE,
              url |-> <<>>, t1 |-> <<>>, t2 |-> <<>>]
        ELSE LET m == CHOOSE x \in ms : TRUE
             IN  [reply |-> "none", ok |-> TRUE,
                  url |-> Sub(joined, m[1] + 1, m[2]),
                  t1 |-> Sub(joined, m[3] + 1, m[4]),
                  t2 |-> Sub(joined, m[5] + 1, m[6])]

-----------------------------------------------------------------------------
(* Bounds and inputs                                                        *)

NReq == 2                       \* requests the dispatch layer delivers
Requests == 1..NReq
MaxParts == 4                   \* components of an enumerated timestamp
MaxFormats == 3                 \* candidates of an enumerated formats list
MaxTokens == 4                  \* argument tokens of an enumerated command
cpu_count == 1                  \* os.cpu_count() of the host

Min(a, b) == IF a < b THEN a ELSE b

\* run_in_executor(None, ...) (line 101) uses the loop's default executor, a
\* ThreadPoolExecutor() whose max_workers is min(32, os.cpu_count() + 4).
max_workers == Min(32, cpu_count + 4)

\* update.message is None
NoText == <<"None">>

TxtTooFew == 
    <<"/", "c", "l", "i", "p", " ", "h", "t", "t", "p", ":", "/", "/", "x">>
TxtNoMatch == 
    <<"/", "c", "l", "i", "p", " ", "h", "t", "t", "p", ":", "/", "/", "x",
     " ", "1", ":", "0", "0", " ", "a", "b", "c">>
TxtValid == 
    <<"/", "c", "l", "i", "p", " ", "h", "t", "t", "p", ":", "/", "/", "x",
     " ", "0", ":", "3", "0", " ", "1", ":", "1", "5">>
TxtEndBeforeStart == 
    <<"/", "c", "l", "i", "p", " ", "h", "t", "t", "p", ":", "/", "/", "x",
     " ", "1", ":", "0", "0", " ", "0", ":", "3", "0">>
TxtEndEqualsStart == 
    <<"/", "c", "l", "i", "p", " ", "h", "t", "t", "p", ":", "/", "/", "x",
     " ", "1", ":", "0", "0", " ", "6", "0">>

Texts == {TxtTooFew, TxtNoMatch, TxtValid, TxtEndBeforeStart, TxtEndEqualsStart}

\* Provider metadata: info.get("url") and info["formats"], each key present
\* or not; a candidate's acodec is a codec name, "none" or (key absent) "NoKey".
NoInfo == [hasUrl |-> FALSE, url |-> "", hasFormats |-> FALSE, formats |-> <<>>]
Fmt(e, a, u) == [ext |-> e, acodec |-> a, url |-> u]

InfoTopUrl ==
    [hasUrl |-> TRUE, url |-> "U", hasFormats |-> TRUE,
     formats |-> <<Fmt("mp4", "aac", "A")>>]
InfoFormatsOnly ==
    [hasUrl |-> FALSE, url |-> "", hasFormats |-> TRUE,
     formats |-> <<Fmt("webm", "aac", "W"), Fmt("mp4", "aac", "A"),
                   Fmt("mp4", "aac", "B")>>]
InfoNoCandidate ==
    [hasUrl |-> FALSE, url |-> "", hasFormats |-> TRUE,
     formats |-> <<Fmt("webm", "aac", "W"), Fmt("mp4", "none", "V")>>]
InfoTopUrlNoCandidate ==
    [hasUrl |-> TRUE, url |-> "U", hasFormats |-> TRUE, formats |-> <<>>]
InfoTopUrlNoFormats ==
    [hasUrl |-> TRUE, url |-> "U", hasFormats |-> FALSE, formats |-> <<>>]

\* What extract_info returns in the handler model.
Infos == {InfoTopUrl, InfoFormatsOnly, InfoNoCandidate, InfoTopUrlNoCandidate,
          InfoTopUrlNoFormats}

\* The enumerated inputs of the stream selection.
Candidates ==
    { Fmt(e, a, u) : e \in {"mp4", "webm"}, a \in {"aac", "none", "NoKey"},
                     u \in {"A", "B"} }
FormatLists == UNION { [1..n -> Candidates] : n \in 0..MaxFormats }
SelInputs ==
    { [hasUrl |-> hu, url |-> IF hu THEN "U" ELSE "", hasFormats |-> hf,
       formats |-> IF hf THEN fs ELSE <<>>] :
        hu \in BOOLEAN, hf \in BOOLEAN, fs \in FormatLists }

\* The enumerated inputs of hms_to_sec: 1..MaxParts components joined by ":".
TsComponents ==
    { <<"0">>, <<"1">>, <<"0", "2">>, <<"0", "3">>, <<"1", "5">>, <<"3", "0">>,
      <<>>, <<"a">>, <<"-", "5">>, <<"-", "3", "0">> }
TsInputs == UNION { [1..n -> TsComponents] : n \in 1..MaxParts }

\* The enumerated inputs of _parse_or_reply: "/clip" followed by 0..MaxTokens
\* argument tokens, separated by one or by two spaces (then with a trailing
\* space as well).
TokHttp == <<"h", "t", "t", "p", ":", "/", "/", "x">>
TokHttps == <<"h", "t", "t", "p", "s", ":", "/", "/", "y">>
TokSchemeOnly == <<"h", "t", "t", "p", ":", "/", "/">>
TokMinSec == <<"0", ":", "3", "0">>
TokHms == <<"1", ":", "0", "2", ":", "0", "3">>
TokLongMinor == <<"1", ":", "2", "3", "4">>
TokWord == <<"a", "b", "c">>
CmdTokens ==
    {TokHttp, TokHttps, TokSchemeOnly, TokMinSec, TokHms, TokLongMinor, TokWord}
CmdInputs == UNION { [1..n -> CmdTokens] : n \in 0..MaxTokens }
Keyword == <<"/", "c", "l", "i", "p">>

RECURSIVE BuildCmd(_, _)
BuildCmd(toks, pad) ==
    IF toks = <<>> THEN IF Len(pad) > 1 THEN <<" ">> ELSE <<>>
    ELSE pad \o Head(toks) \o BuildCmd(Tail(toks), pad)

-----------------------------------------------------------------------------
(* Initial states                                                           *)

NoCmd ==
    [st |-> "idle", reply |-> "none", ok |-> FALSE, url |-> <<>>, t1 |-> <<>>,
     t2 |-> <<>>]

FnQuiet ==
    /\ argParts = <<>>
    /\ argTs = <<>>
    /\ retSec = [st |-> "idle", exc |-> "none", val |-> 0]
    /\ argInfo = NoInfo
    /\ retStream = [st |-> "idle", exc |-> "none", url |-> ""]
    /\ argToks = <<>>
    /\ argCmd = <<>>
    /\ retCmd = NoCmd

BotQuiet ==
    /\ pc = [r \in Requests |-> "Idle"]
    /\ text = [r \in Requests |-> <<>>]
    /\ info = [r \in Requests |-> NoInfo]
    /\ stream = [r \in Requests |-> ""]
    /\ exc = [r \in Requests |-> "none"]
    /\ thread = [r \in Requests |-> "none"]
    /\ queue = <<>>
    /\ workspace = [r \in Requests |-> "none"]
    /\ note = [r \in Requests |-> "none"]
    /\ sent = [r \in Requests |-> 0]
    /\ unawaited = [r \in Requests |-> 0]
    /\ logged = [r \in Requests |-> 0]
    /\ calls = [r \in Requests |-> [resolver |-> 0, ffmpeg |-> 0, delivery |-> 0]]
    /\ returncode = [r \in Requests |-> -1]

\* PTB_MODE is fixed by which telegram.ext imports succeed (lines 10-26).
\* In async mode clip_youtube's exception travels through an asyncio Future,
\* whose set_exception, given a StopIteration, raises TypeError inside the
\* loop callback (CPython up to 3.12: the awaiting coroutine is never
\* resumed) or wraps it in a RuntimeError (later versions).
Init ==
    /\ FnQuiet
    /\ BotQuiet
    /\ \E m \in {<<"async", "TypeError">>, <<"async", "RuntimeError">>,
                  <<"sync", "unused">>} :
           PTB_MODE = m[1] /\ set_exception = m[2]

-----------------------------------------------------------------------------
(* h_clip (lines 88-109 and 118-137) with clip_youtube (lines 44-66)        *)

\* parsed = _parse_or_reply(update.message.text, ...) (lines 91, 121), for
\* each command text the dispatch layer delivers.
Parsed == [txt \in Texts |-> _parse_or_reply(txt)]

Bump(c, field) == [c EXCEPT ![field] = @ + 1]

\* A variant whose directory outlives the handler (tempfile.mkdtemp() in
\* place of the TemporaryDirectory context manager).
HandlerExceptLeak(r, e) ==
    /\ logged' = [logged EXCEPT ![r] = @ + 1]
    /\ note' = [note EXCEPT ![r] = "failed"]
    /\ exc' = [exc EXCEPT ![r] = e]
    /\ pc' = [pc EXCEPT ![r] = "Done"]
    /\ thread' = [thread EXCEPT ![r] = "none"]
    /\ UNCHANGED workspace

\* The `except Exception as e` branch of h_clip (lines 105-107, 133-135),
\* reached after the `with` block has removed the TemporaryDirectory.
HandlerExcept(r, e) ==
    /\ workspace' = [workspace EXCEPT ![r] = "destroyed"]
    /\ logged' = [logged EXCEPT ![r] = @ + 1]
    /\ note' = [note EXCEPT ![r] = "failed"]
    /\ exc' = [exc EXCEPT ![r] = e]
    /\ pc' = [pc EXCEPT ![r] = "Done"]
    /\ thread' = [thread EXCEPT ![r] = "none"]

\* clip_youtube raised e. In sync mode the handler's own try block catches
\* it; in async mode it is stored in the executor's future.
ClipRaised(r, e) ==
    IF PTB_MODE = "sync"
    THEN HandlerExcept(r, e) /\ UNCHANGED calls
    ELSE /\ pc' = [pc EXCEPT ![r] = "WorkerDone"]
         /\ exc' = [exc EXCEPT ![r] = e]
         /\ thread' = [thread EXCEPT ![r] = "none"]
         /\ UNCHANGED <<workspace, logged, note, calls>>

\* A variant whose `with` block ends with clip_youtube, before reply_video.
ClipReturnedCleansUp(r) ==
    /\ workspace' = [workspace EXCEPT ![r] = "destroyed"]
    /\ IF PTB_MODE = "sync"
       THEN /\ pc' = [pc EXCEPT ![r] = "Ready"]
            /\ calls' = [calls EXCEPT ![r] = Bump(@, "delivery")]
            /\ UNCHANGED <<logged, note, exc, thread>>
       ELSE /\ pc' = [pc EXCEPT ![r] = "WorkerDone"]
            /\ thread' = [thread EXCEPT ![r] = "none"]
            /\ UNCHANGED <<logged, note, exc, calls>>

\* clip_youtube returned. In sync mode the handler goes on to reply_video
\* (lines 130-132); in async mode the result is stored in the future.
ClipReturned(r) ==
    IF PTB_MODE = "sync"
    THEN /\ pc' = [pc EXCEPT ![r] = "Ready"]
         /\ calls' = [calls EXCEPT ![r] = Bump(@, "delivery")]
         /\ UNCHANGED <<workspace, logged, note, exc, thread>>
    ELSE /\ pc' = [pc EXCEPT ![r] = "WorkerDone"]
         /\ thread' = [thread EXCEPT ![r] = "none"]
         /\ UNCHANGED <<workspace, logged, note, exc, calls>>

\* update.message is None: the handler returns at once (lines 89-90, 119-120).
DispatchNoMessage(r) ==
    /\ pc[r] = "Idle"
    /\ PTB_MODE = "sync" => \A q \in Requests : thread[q] # "dispatch"
    /\ text' = [text EXCEPT ![r] = NoText]
    /\ pc' = [pc EXCEPT ![r] = "Done"]
    /\ UNCHANGED <<fnVars, returncode, PTB_MODE, set_exception, info, stream, exc, thread,
                   queue, workspace, note, sent, unawaited, logged, calls>>

\* The dispatch layer calls h_clip with a command text. The handler runs up
\* to its first suspension: in async mode the await of line 95; in sync mode
\* the blocking extract_info call inside clip_youtube (line 129), which runs
\* on the dispatcher's own thread, so that no other update is dispatched
\* until the handler returns.
\* _parse_or_reply calls reply_fn without awaiting it (lines 72, 76): in async
\* mode reply_text is a coroutine function (it is awaited on line 95), so the
\* call only creates a coroutine that is dropped, and no message is sent.
Dispatch(r, txt) ==
    /\ pc[r] = "Idle"
    /\ PTB_MODE = "sync" => \A q \in Requests : thread[q] # "dispatch"
    /\ text' = [text EXCEPT ![r] = txt]
    /\ LET parsed == Parsed[txt]
       IN  IF ~parsed.ok
           THEN /\ pc' = [pc EXCEPT ![r] = "Done"]
                /\ IF PTB_MODE = "async"
                   THEN /\ unawaited' = [unawaited EXCEPT ![r] = @ + 1]
                        /\ UNCHANGED sent
                   ELSE /\ sent' = [sent EXCEPT ![r] = @ + 1]
                        /\ UNCHANGED unawaited
                /\ UNCHANGED <<thread, workspace, note, calls>>
           ELSE IF PTB_MODE = "async"
           THEN /\ pc' = [pc EXCEPT ![r] = "AwaitNote"]
                /\ UNCHANGED <<thread, workspace, note, calls, sent, unawaited>>
           ELSE /\ sent' = [sent EXCEPT ![r] = @ + 1]
                /\ note' = [note EXCEPT ![r] = "progress"]
                /\ workspace' = [workspace EXCEPT ![r] = "exists"]
                /\ thread' = [thread EXCEPT ![r] = "dispatch"]
                /\ calls' = [calls EXCEPT ![r] = Bump(@, "resolver")]
                /\ pc' = [pc EXCEPT ![r] = "Resolving"]
                /\ UNCHANGED unawaited
    /\ UNCHANGED <<fnVars, returncode, PTB_MODE, set_exception, info, stream, exc, queue, logged>>

\* Async: the await of reply_text("Clipping...") completes (line 95), the
\* TemporaryDirectory is created (line 99) and clip_youtube is submitted to
\* the executor (line 101).
NoteReplied(r) ==
    /\ PTB_MODE = "async"
    /\ pc[r] = "AwaitNote"
    /\ sent' = [sent EXCEPT ![r] = @ + 1]
    /\ note' = [note EXCEPT ![r] = "progress"]
    /\ workspace' = [workspace EXCEPT ![r] = "exists"]
    /\ queue' = Append(queue, r)
    /\ pc' = [pc EXCEPT ![r] = "Queued"]
    /\ UNCHANGED <<fnVars, returncode, PTB_MODE, set_exception, text, info, stream, exc,
                   thread, unawaited, logged, calls>>

Running == {q \in Requests : thread[q] = "worker"}

\* Async: a worker thread of the executor takes the oldest work item and
\* starts clip_youtube, which calls extract_info (lines 45-48).
WorkerTake(r) ==
    /\ PTB_MODE = "async"
    /\ queue # <<>> /\ Head(queue) = r
    /\ Cardinality(Running) < max_workers
    /\ queue' = Tail(queue)
    /\ thread' = [thread EXCEPT ![r] = "worker"]
    /\ calls' = [calls EXCEPT ![r] = Bump(@, "resolver")]
    /\ pc' = [pc EXCEPT ![r] = "Resolving"]
    /\ UNCHANGED <<fnVars, returncode, PTB_MODE, set_exception, text, info, stream, exc,
                   workspace, note, sent, unawaited, logged>>

\* What lines 50-58 do with the metadata i and the command's timestamps.
AfterResolve(txt, i) ==
    LET parsed == Parsed[txt]
        sel == select_stream(i)
        s0 == hms_to_sec(parsed.t1)
        s1 == hms_to_sec(parsed.t2)
    IN  IF sel.exc # "none" THEN [exc |-> sel.exc, url |-> ""]
        ELSE IF s0.exc # "none" \/ s1.exc # "none"
        THEN [exc |-> "MalformedTimestamp", url |-> ""]
        ELSE IF s1.val <= s0.val THEN [exc |-> "InvalidRange", url |-> ""]
        ELSE [exc |-> "none", url |-> sel.url]

\* extract_info returns metadata i; the stream is selected, the timestamps
\* are converted and compared, and ffmpeg is started (lines 50-66).
ResolverReturns(r, i) ==
    /\ pc[r] = "Resolving"
    /\ info' = [info EXCEPT ![r] = i]
    /\ LET res == AfterResolve(text[r], i)
       IN  IF res.exc # "none"
           THEN ClipRaised(r, res.exc) /\ UNCHANGED stream
           ELSE /\ stream' = [stream EXCEPT ![r] = res.url]
                /\ calls' = [calls EXCEPT ![r] = Bump(@, "ffmpeg")]
                /\ pc' = [pc EXCEPT ![r] = "Extracting"]
                /\ UNCHANGED <<workspace, logged, note, exc, thread>>
    /\ UNCHANGED <<fnVars, returncode, PTB_MODE, set_exception, text, queue, sent, unawaited>>

\* A variant that calls extract_info once more after a first failure.
ResolverRaisesRetry(r) ==
    /\ pc[r] = "Resolving"
    /\ IF calls[r].resolver < 2
       THEN /\ calls' = [calls EXCEPT ![r] = Bump(@, "resolver")]
            /\ UNCHANGED <<pc, exc, thread, workspace, logged, note>>
       ELSE ClipRaised(r, "DownloadError")
    /\ UNCHANGED <<fnVars, returncode, PTB_MODE, set_exception, text, info, stream,
                   queue, sent, unawaited>>

\* extract_info raises (a network or provider error: yt_dlp's DownloadError).
ResolverRaises(r) ==
    /\ pc[r] = "Resolving"
    /\ ClipRaised(r, "DownloadError")
    /\ UNCHANGED <<fnVars, returncode, PTB_MODE, set_exception, text, info, stream, queue,
                   sent, unawaited>>

\* A variant without check=True: the exit status is ignored.
FfmpegExitsUnchecked(r, status) ==
    /\ pc[r] = "Extracting"
    /\ returncode' = [returncode EXCEPT ![r] = status]
    /\ ClipReturned(r)
    /\ UNCHANGED <<fnVars, PTB_MODE, set_exception, text, info, stream, queue,
                   sent, unawaited>>

\* ffmpeg exits; subprocess.run(check=True) raises CalledProcessError on a
\* nonzero status (lines 60-66).
FfmpegExits(r, status) ==
    /\ pc[r] = "Extracting"
    /\ returncode' = [returncode EXCEPT ![r] = status]
    /\ IF status = 0 THEN ClipReturned(r) ELSE ClipRaised(r, "CalledProcessError")
    /\ UNCHANGED <<fnVars, PTB_MODE, set_exception, text, info, stream, queue,
                   sent, unawaited>>

\* Async: the loop copies the executor future's state into the awaited
\* asyncio future and the coroutine resumes after line 101.
FutureDone(r) ==
    /\ PTB_MODE = "async"
    /\ pc[r] = "WorkerDone"
    /\ IF exc[r] = "none"
       THEN /\ pc' = [pc EXCEPT ![r] = "Ready"]
            /\ calls' = [calls EXCEPT ![r] = Bump(@, "delivery")]
            /\ UNCHANGED <<workspace, logged, note, exc, thread>>
       ELSE IF exc[r] = "StopIteration"
       THEN IF set_exception = "TypeError"
            THEN /\ pc' = [pc EXCEPT ![r] = "Hung"]
                 /\ UNCHANGED <<workspace, logged, note, exc, thread, calls>>
            ELSE HandlerExcept(r, "RuntimeError") /\ UNCHANGED calls
       ELSE HandlerExcept(r, exc[r]) /\ UNCHANGED calls
    /\ UNCHANGED <<fnVars, returncode, PTB_MODE, set_exception, text, info, stream, queue,
                   sent, unawaited>>

DeliveryResults == {"ok", "TimedOut", "NetworkError"}

\* reply_video returns or raises (lines 102-104, 130-132); the `with` block
\* is left either way, then note.delete() or the except branch runs.
DeliveryReturns(r, res) ==
    /\ pc[r] = "Ready"
    /\ IF res = "ok"
       THEN /\ workspace' = [workspace EXCEPT ![r] = "destroyed"]
            /\ note' = [note EXCEPT ![r] = "deleted"]
            /\ pc' = [pc EXCEPT ![r] = "Done"]
            /\ thread' = [thread EXCEPT ![r] = "none"]
            /\ UNCHANGED <<logged, exc>>
       ELSE HandlerExcept(r, res)
    /\ UNCHANGED <<fnVars, returncode, PTB_MODE, set_exception, text, info, stream, queue,
                   sent, unawaited, calls>>

Next ==
    \E r \in Requests :
        \/ DispatchNoMessage(r)
        \/ \E txt \in Texts : Dispatch(r, txt)
        \/ NoteReplied(r)
        \/ WorkerTake(r)
        \/ ResolverRaises(r)
        \/ \E i \in Infos : ResolverReturns(r, i)
        \/ \E status \in {0, 1} : FfmpegExits(r, status)
        \/ FutureDone(r)
        \/ \E res \in DeliveryResults : DeliveryReturns(r, res)

Spec == Init /\ [][Next]_vars

-----------------------------------------------------------------------------
(* The pure functions applied to enumerated inputs                          *)

InitTs ==
    /\ BotQuiet /\ PTB_MODE = "async" /\ set_exception = "RuntimeError"
    /\ argParts \in TsInputs
    /\ argTs = Join(argParts, ":")
    /\ retSec = [st |-> "idle", exc |-> "none", val |-> 0]
    /\ argInfo = NoInfo
    /\ retStream = [st |-> "idle", exc |-> "none", url |-> ""]
    /\ argToks = <<>> /\ argCmd = <<>> /\ retCmd = NoCmd

Call_hms_to_sec ==
    /\ retSec.st = "idle"
    /\ retSec' = [st |-> "done", exc |-> hms_to_sec(argTs).exc,
                  val |-> hms_to_sec(argTs).val]
    /\ UNCHANGED <<argParts, argTs, argInfo, retStream, argToks, argCmd, retCmd,
                   botVars>>

SpecTs == InitTs /\ [][Call_hms_to_sec]_vars

InitSel ==
    /\ BotQuiet /\ PTB_MODE = "async" /\ set_exception = "RuntimeError"
    /\ argParts = <<>>
    /\ argTs = <<>>
    /\ retSec = [st |-> "idle", exc |-> "none", val |-> 0]
    /\ argInfo \in SelInputs
    /\ retStream = [st |-> "idle", exc |-> "none", url |-> ""]
    /\ argToks = <<>> /\ argCmd = <<>> /\ retCmd = NoCmd

Call_select_stream ==
    /\ retStream.st = "idle"
    /\ retStream' = [st |-> "done", exc |-> select_stream(argInfo).exc,
                     url |-> select_stream(argInfo).url]
    /\ UNCHANGED <<argParts, argTs, retSec, argInfo, argToks, argCmd, retCmd,
                   botVars>>

SpecSel == InitSel /\ [][Call_select_stream]_vars

InitCmd ==
    /\ BotQuiet /\ PTB_MODE = "async" /\ set_exception = "RuntimeError"
    /\ argParts = <<>>
    /\ argTs = <<>>
    /\ retSec = [st |-> "idle", exc |-> "none", val |-> 0]
    /\ argInfo = NoInfo
    /\ retStream = [st |-> "idle", exc |-> "none", url |-> ""]
    /\ argToks \in CmdInputs
    /\ \E pad \in {<<" ">>, <<" ", " ">>} : argCmd = Keyword \o BuildCmd(argToks, pad)
    /\ retCmd = NoCmd

Call_parse_or_reply ==
    /\ retCmd.st = "idle"
    /\ LET p == _parse_or_reply(argCmd)
       IN  retCmd' = [st |-> "done", reply |-> p.reply, ok |-> p.ok, url |-> p.url,
                      t1 |-> p.t1, t2 |-> p.t2]
    /\ UNCHANGED <<argParts, argTs, retSec, argInfo, retStream, argToks, argCmd,
                   botVars>>

SpecCmd == InitCmd /\ [][Call_parse_or_reply]_vars

-----------------------------------------------------------------------------
(* Properties                                                               *)

Accepted(r) == text[r] \in Texts /\ Parsed[text[r]].ok
Rejected(r) == text[r] \in Texts /\ ~Parsed[text[r]].ok
Finished(r) == pc[r] = "Done"

\* C1: a request that acquired a Workspace and has finished (delivered or
\* failed in resolution, range validation, extraction or delivery) has no
\* Workspace left: every exit of h_clip has removed the directory.
C1_WorkspaceDestroyed ==
    \A r \in Requests :
        Finished(r) /\ workspace[r] # "none" => workspace[r] = "destroyed"

\* A request whose delivery timed out has finished and its Workspace is gone.
C1_Witness ==
    \E r \in Requests :
        /\ Finished(r) /\ exc[r] = "TimedOut"
        /\ calls[r].delivery = 1 /\ workspace[r] = "destroyed"

\* C2: a command the Command Parser rejects ends with exactly one reply to
\* the user, and no Workspace, resolver call or trimming process for it.
C2_RejectedRepliesOnce ==
    \A r \in Requests :
        Rejected(r) /\ Finished(r) =>
            /\ sent[r] = 1
            /\ workspace[r] = "none"
            /\ calls[r].resolver = 0
            /\ calls[r].ffmpeg = 0

\* C3: a command the grammar accepts whose end converts to at most its start
\* ends in Failed(InvalidRange), whatever the resolver did on its URL.
C3_InvalidRangeAlways ==
    \A r \in Requests :
        (/\ Accepted(r) /\ Finished(r)
         /\ hms_to_sec(Parsed[text[r]].t2).val <= hms_to_sec(Parsed[text[r]].t1).val)
        => exc[r] = "InvalidRange"

\* C4: whenever the metadata holds a top-level url the selection returns it,
\* whatever the formats list holds (absent, empty, or without a candidate).
C4_TopLevelUrlWins ==
    (retStream.st = "done" /\ argInfo.hasUrl)
    => (retStream.exc = "none" /\ retStream.url = argInfo.url)

ClaimQualifies(f) == f.ext = "mp4" /\ f.acodec # "none"
NoCandidate(i) ==
    ~i.hasUrl /\ i.hasFormats /\ \A k \in 1..Len(i.formats) : ~ClaimQualifies(i.formats[k])

\* A request that can take no further step.
Terminal(r) == pc[r] \in {"Done", "Hung"}

\* C5: with no top-level url and no mp4 candidate with audio, the trimming
\* process is never started and the request ends with a resolution failure
\* written to the user's progress note.
C5_NoPlayableStreamReported ==
    \A r \in Requests :
        (calls[r].resolver = 1 /\ pc[r] # "Resolving" /\ NoCandidate(info[r])
         /\ exc[r] # "DownloadError")
        => /\ calls[r].ffmpeg = 0
           /\ Terminal(r) => (note[r] = "failed"
                              /\ exc[r] \in {"StopIteration", "RuntimeError"})

\* C6: with no top-level url, the selection returns the url of the first
\* candidate, in the given order, with ext mp4 and acodec other than "none".
C6_FirstQualifying ==
    (/\ retStream.st = "done" /\ ~argInfo.hasUrl /\ argInfo.hasFormats
     /\ \E k \in 1..Len(argInfo.formats) : ClaimQualifies(argInfo.formats[k]))
    => LET first == CHOOSE k \in 1..Len(argInfo.formats) :
                        /\ ClaimQualifies(argInfo.formats[k])
                        /\ \A j \in 1..(k - 1) : ~ClaimQualifies(argInfo.formats[j])
       IN  retStream.exc = "none" /\ retStream.url = argInfo.formats[first].url

\* formats [webm, mp4/aac A, mp4/aac B] and no top-level url: A is selected.
C6_Witness ==
    /\ retStream.st = "done" /\ retStream.url = "A"
    /\ ~argInfo.hasUrl /\ Len(argInfo.formats) = 3
    /\ argInfo.formats[1].ext = "webm"
    /\ argInfo.formats[2] = Fmt("mp4", "aac", "A")
    /\ argInfo.formats[3] = Fmt("mp4", "aac", "B")

\* C7: when extraction succeeded and the delivery call times out, no failure
\* message is written to the progress note: the timeout is only logged.
C7_TimeoutNotSurfaced ==
    \A r \in Requests :
        (Finished(r) /\ calls[r].delivery = 1 /\ exc[r] = "TimedOut")
        => (note[r] # "failed" /\ logged[r] = 1)

\* C8: resolution and extraction of a request never run on the thread that
\* dispatches commands.
C8_OffDispatchThread ==
    \A r \in Requests :
        pc[r] \in {"Resolving", "Extracting"} => thread[r] # "dispatch"

\* The values of the enumerated components that are nonnegative integers.
NonNegComponents ==
    {<<"0">>, <<"1">>, <<"0", "2">>, <<"0", "3">>, <<"1", "5">>, <<"3", "0">>}
ComponentValue(c) ==
    CASE c = <<"0">> -> 0 [] c = <<"1">> -> 1 [] c = <<"0", "2">> -> 2
      [] c = <<"0", "3">> -> 3 [] c = <<"1", "5">> -> 15 [] c = <<"3", "0">> -> 30

\* The k-th component from the right, 0 when the timestamp has fewer.
FromRight(parts, k) ==
    IF k <= Len(parts) THEN ComponentValue(parts[Len(parts) - k + 1]) ELSE 0

\* C9: for 1 to 3 colon-separated nonnegative integer components hms_to_sec
\* returns hours*3600 + minutes*60 + seconds, missing high-order components
\* counting as 0.
C9_HmsValue ==
    (/\ retSec.st = "done" /\ Len(argParts) \in 1..3
     /\ \A k \in 1..Len(argParts) : argParts[k] \in NonNegComponents)
    => /\ retSec.exc = "none"
       /\ retSec.val = FromRight(argParts, 3) * 3600 + FromRight(argParts, 2) * 60
                       + FromRight(argParts, 1)

\* "1:02:03" gives 3723.
C9_Witness ==
    /\ retSec.st = "done" /\ retSec.val = 3723
    /\ argParts = << <<"1">>, <<"0", "2">>, <<"0", "3">> >>

\* C10: hms_to_sec fails whenever some component is not a nonnegative
\* integer (non-numeric, empty, negative or signed); it returns no value.
C10_NonIntegerFails ==
    (/\ retSec.st = "done"
     /\ \E k \in 1..Len(argParts) : argParts[k] \notin NonNegComponents)
    => retSec.exc = "ValueError"

\* C11: hms_to_sec fails for every input of more than 3 colon-separated
\* components; it never drops components to produce a value.
C11_TooManyComponentsFail ==
    (retSec.st = "done" /\ Len(argParts) > 3) => retSec.exc = "ValueError"

\* "1:02:03:30", four nonnegative integers, has been refused.
C11_Witness ==
    /\ retSec.st = "done" /\ retSec.exc = "ValueError"
    /\ argParts = << <<"1">>, <<"0", "2">>, <<"0", "3">>, <<"3", "0">> >>

\* The enumerated tokens that are URLs and timestamps of the grammar.
UrlTokens == {TokHttp, TokHttps}
TimeTokens == {TokMinSec, TokHms}
FullMatch(toks) ==
    Len(toks) = 3 /\ toks[1] \in UrlTokens /\ toks[2] \in TimeTokens
    /\ toks[3] \in TimeTokens

\* C12: fewer than three argument tokens always give the usage message and
\* never the parse-failure message; three or more tokens that are not
\* URL TIME TIME (extra trailing tokens included) always give the
\* parse-failure message and never the usage message; the three tokens are
\* returned exactly on a full match.
C12_ArityThenPattern ==
    retCmd.st = "done" =>
        /\ Len(argToks) < 3 => (retCmd.reply = "Usage" /\ ~retCmd.ok)
        /\ (Len(argToks) >= 3 /\ ~FullMatch(argToks))
               => (retCmd.reply = "CouldntParse" /\ ~retCmd.ok)
        /\ FullMatch(argToks)
               => /\ retCmd.ok /\ retCmd.reply = "none"
                  /\ retCmd.url = argToks[1]
                  /\ retCmd.t1 = argToks[2] /\ retCmd.t2 = argToks[3]

\* A well-formed command followed by one more token got the parse-failure
\* message.
C12_Witness ==
    /\ retCmd.st = "done" /\ retCmd.reply = "CouldntParse"
    /\ Len(argToks) = 4 /\ FullMatch(SubSeq(argToks, 1, 3))

\* The errors clip_youtube ends with (resolution, range validation, extraction).
ClipErrors ==
    {"DownloadError", "StopIteration", "KeyError", "RuntimeError", "InvalidRange",
     "MalformedTimestamp", "CalledProcessError"}

\* C13: every error of resolution or extraction is caught in h_clip, logged
\* once and written as one failure message to the progress note, and the
\* progress note is deleted only when no error occurred.
C13_ErrorsCaughtAndReported ==
    \A r \in Requests :
        /\ (Terminal(r) /\ exc[r] \in ClipErrors)
               => (logged[r] = 1 /\ note[r] = "failed")
        /\ note[r] = "deleted" => (exc[r] = "none" /\ logged[r] = 0)

\* C14: reply_video is called only after the request's ffmpeg process has
\* exited with status 0; after a nonzero exit the request ends in
\* ExtractionFailed and reply_video is never called for it.
C14_DeliverAfterExitZero ==
    \A r \in Requests :
        /\ calls[r].delivery >= 1 => returncode[r] = 0
        /\ returncode[r] \notin {-1, 0}
               => /\ calls[r].delivery = 0
                  /\ exc[r] = "CalledProcessError"
                  /\ Finished(r) => note[r] = "failed"

\* One request is being delivered after exit 0, another has ended after a
\* nonzero exit without any delivery call.
C14_Witness ==
    \E r, q \in Requests :
        /\ returncode[r] = 0 /\ calls[r].delivery = 1
        /\ returncode[q] = 1 /\ Finished(q) /\ calls[q].delivery = 0

InvalidRangeCmd(r) ==
    /\ Accepted(r)
    /\ hms_to_sec(Parsed[text[r]].t2).val <= hms_to_sec(Parsed[text[r]].t1).val

\* C15: a request whose end is not later than its start is rejected before
\* a Workspace is acquired and before the resolver is invoked.
C15_RangeCheckedFirst ==
    \A r \in Requests :
        InvalidRangeCmd(r) =>
            /\ pc[r] # "Resolving"
            /\ workspace[r] = "none"
            /\ calls[r].resolver = 0

\* C16: on the success path the Workspace exists from the end of extraction
\* through the whole delivery call; it is destroyed only once the delivery
\* call has returned or raised.
C16_WorkspaceOutlivesDelivery ==
    \A r \in Requests :
        /\ (returncode[r] = 0 /\ ~Finished(r)) => workspace[r] = "exists"
        /\ (returncode[r] = 0 /\ workspace[r] = "destroyed")
               => (Finished(r) /\ calls[r].delivery = 1)

\* reply_video is in progress and the Workspace is still there.
C16_Witness ==
    \E r \in Requests :
        pc[r] = "Ready" /\ calls[r].delivery = 1 /\ workspace[r] = "exists"

Rank(p) ==
    CASE p = "Idle" -> 0 [] p = "AwaitNote" -> 1 [] p = "Queued" -> 2
      [] p = "Resolving" -> 3 [] p = "Extracting" -> 4 [] p = "WorkerDone" -> 5
      [] p = "Ready" -> 6 [] p = "Hung" -> 7 [] p = "Done" -> 7

\* C17: within a request the resolver, the extractor and the delivery call
\* are each invoked at most once, the extractor only after the resolver
\* returned a stream URL, the delivery only after the extractor, and the
\* request never steps back to an earlier stage.
C17_ForwardOnceEach ==
    /\ [](\A r \in Requests :
            /\ calls[r].resolver <= 1 /\ calls[r].ffmpeg <= 1
            /\ calls[r].delivery <= 1
            /\ calls[r].ffmpeg = 1 => (calls[r].resolver = 1 /\ stream[r] # "")
            /\ calls[r].delivery = 1 => calls[r].ffmpeg = 1
            /\ pc[r] = "Resolving" => calls[r].ffmpeg = 0
            /\ pc[r] = "Extracting" => calls[r].delivery = 0)
    /\ [][\A r \in Requests : Rank(pc'[r]) >= Rank(pc[r])]_vars

\* A request went through resolver, extractor and delivery, once each.
C17_Witness ==
    \E r \in Requests :
        /\ Finished(r) /\ note[r] = "deleted"
        /\ calls[r] = [resolver |-> 1, ffmpeg |-> 1, delivery |-> 1]

\* C18: never more requests in Resolving/Extracting than the host has
\* processing units.
C18_BoundedByCpuCount ==
    Cardinality({r \in Requests : pc[r] \in {"Resolving", "Extracting"}}) <= cpu_count

\* The steps of request r after its dispatch.
RequestStep(r) ==
    \/ NoteReplied(r)
    \/ WorkerTake(r)
    \/ ResolverRaises(r)
    \/ \E i \in Infos : ResolverReturns(r, i)
    \/ \E status \in {0, 1} : FfmpegExits(r, status)
    \/ FutureDone(r)
    \/ \E res \in DeliveryResults : DeliveryReturns(r, res)

\* C19: a request that passed command parsing and has not reached its
\* terminal outcome can always take a further step (or waits in the queue
\* behind a request that can), whatever the resolver step raised:
\* no request stays forever in Resolving, Extracting or Ready.
C19_NoRequestStuck ==
    \A r \in Requests :
        (Accepted(r) /\ ~Finished(r))
        => \/ ENABLED RequestStep(r)
           \/ pc[r] = "Queued" /\ \E q \in Requests : ENABLED RequestStep(q)

\* C20: a timestamp the grammar's TIME pattern accepts is accepted by
\* hms_to_sec and converts to a nonnegative integer.
C20_GrammarTimesConvert ==
    (retSec.st = "done" /\ IsTime(argTs))
    => (retSec.exc = "none" /\ retSec.val >= 0)

\* "0:30" matches the pattern and converts to 30.
C20_Witness ==
    /\ retSec.st = "done" /\ IsTime(argTs) /\ retSec.val = 30
    /\ argParts = << <<"0">>, <<"3", "0">> >>

=============================================================================
